---- MODULE Spec2Model ----
(***************************************************************************)
(* State machine of the chat client in src/src/App.tsx (the variant in     *)
(* src/unnamed/part_000 has the same handlers without the walkthrough).    *)
(*                                                                         *)
(* React state is one variable per useState hook.  A handler runs          *)
(* atomically up to its first await and sees the state of the render it    *)
(* was created in; the part of an async handler after an await is a later  *)
(* action that still reads the values its closure captured.                *)
(* Text is a sequence of one-character strings.                            *)
(***************************************************************************)
EXTENDS Integers, Sequences, FiniteSets, TLC

VARIABLES
  chats,               \* useState<Chat[]>            (App.tsx:69)
  activeChatId,        \* useState<string | null>     (App.tsx:70)
  isLoading,           \* useState<boolean>           (App.tsx:72)
  apiKey,              \* useState<string>            (App.tsx:67)
  voiceCommandToSend,  \* useState<string | null>     (App.tsx:76)
  ragRetriever,        \* useState<BaseRetriever|null>(App.tsx:77)
  ragStatus,           \* useState<string>            (App.tsx:78)
  loadedDocuments,     \* useState<LoadedDocument[]>  (App.tsx:79)
  clock,               \* the value Date.now() returns
  sends,               \* executeSend calls suspended at an await
  builds,              \* buildRagFromLoadedDocs calls suspended at an await
  reads,               \* handleFileUpload calls suspended at file.text()
  stChats,             \* localStorage['chatbot-chats']
  stActive,            \* localStorage['chatbot-active-chat-id']
  rejected,            \* a submission was refused since the pending send
                       \* was accepted
  nextUid,             \* sessions created so far, plus one
  results,             \* event.results of the recognition session
  utteranceStartIndexRef,  \* useRef(0)               (App.tsx:83)
  alerted,             \* an alert asked for the API key since the key
                       \* last changed
  mounted,             \* what the mount effect of this page load did
  isMuted,             \* useState(false)            (App.tsx:74)
  speechSynthesis,     \* window.speechSynthesis: whether the browser has
                       \* it, and the utterance it is speaking
  isWalkthroughActive, \* useState(false)            (App.tsx:85)
  speechBox,           \* useState({visible, text, ...}) (App.tsx:86)
  audioPlayerRef,      \* useRef<HTMLAudioElement|null>(null) (App.tsx:87):
                       \* the number of the player in players, 0 for null
  players              \* the Audio elements made so far, each with the
                       \* currentIndex of the startWalkthrough call that
                       \* made it

vars == <<chats, activeChatId, isLoading, apiKey, voiceCommandToSend,
          ragRetriever, ragStatus, loadedDocuments, clock, sends, builds,
          reads, stChats, stActive, rejected, nextUid, results,
          utteranceStartIndexRef, alerted, mounted, isMuted,
          speechSynthesis, isWalkthroughActive, speechBox, audioPlayerRef,
          players>>

sessionVars == <<chats, activeChatId, stChats, stActive>>
ragVars     == <<ragRetriever, ragStatus, loadedDocuments, builds, reads>>
walkVars    == <<isWalkthroughActive, speechBox, audioPlayerRef, players>>
speechVars  == <<results, utteranceStartIndexRef, isMuted, speechSynthesis,
                 walkVars>>

----------------------------------------------------------------------------
(* Bounds of the model *)

MaxCreated == 2  \* sessions created in one run
MaxMsgs    == 1  \* a send is submitted to a session of fewer messages
MaxReads   == 1  \* uploads whose files are being read
MaxBuilds  == 2  \* index rebuilds that are running
MaxResults == 3  \* results of one recognition session
MaxHistory == 3  \* the same, where the sessions are to have a history
MaxWalks   == 3  \* walkthroughs started in one run

----------------------------------------------------------------------------
(* Text *)

Null == "null"

\* a string | null state whose strings are texts: no element, or the text
None == <<>>
Some(text) == <<text>>

Whitespace == {" ", "\t", "\n"}

RECURSIVE TrimStart(_)
TrimStart(s) ==
  IF s # <<>> /\ Head(s) \in Whitespace THEN TrimStart(Tail(s)) ELSE s

RECURSIVE TrimEnd(_)
TrimEnd(s) ==
  IF s # <<>> /\ s[Len(s)] \in Whitespace
    THEN TrimEnd(SubSeq(s, 1, Len(s) - 1))
    ELSE s

Trim(s) == TrimEnd(TrimStart(s))

ToLower(c) ==
  CASE c = "S" -> "s" [] c = "E" -> "e" [] c = "N" -> "n"
    [] c = "D" -> "d" [] c = "T" -> "t" [] OTHER -> c

Lower(s) == [i \in 1..Len(s) |-> ToLower(s[i])]

S_send == <<"s", "e", "n", "d">>
S_sent == <<"s", "e", "n", "t">>

\* the test without the i flag
SendCommandRegexTest_CaseSensitive(s) ==
  /\ Len(s) >= 5
  /\ s[Len(s) - 4] \in Whitespace
  /\ SubSeq(s, Len(s) - 3, Len(s)) \in {S_send, S_sent}

\* /\s(send|sent)$/i
SendCommandRegexTest(s) ==
  /\ Len(s) >= 5
  /\ s[Len(s) - 4] \in Whitespace
  /\ Lower(SubSeq(s, Len(s) - 3, Len(s))) \in {S_send, S_sent}

\* currentUtterance.replace(sendCommandRegex, '')
SendCommandRegexReplace(s) ==
  IF SendCommandRegexTest(s) THEN SubSeq(s, 1, Len(s) - 5) ELSE s

Quotes == {"\"", "'"}

\* content?.replace(/["']/g, '') || 'Chat'
S_Chat == <<"C", "h", "a", "t">>
StripQuotes(s) == SelectSeq(s, LAMBDA c : c \notin Quotes)
NewTitle(content) ==
  IF StripQuotes(content) # <<>> THEN StripQuotes(content) ELSE S_Chat

S_NewChat == <<"N", "e", "w", " ", "C", "h", "a", "t">>

ErrorMessageContent ==
  <<"S", "o", "r", "r", "y", ",", " ", "s", "o", "m", "e", "t", "h", "i",
    "n", "g", " ", "w", "e", "n", "t", " ", "w", "r", "o", "n", "g", ".">>

----------------------------------------------------------------------------
(* Inputs *)

S_hi == <<"h", "i">>

\* what the user types, or what reaches executeSend from the voice command
SendTexts == {<<>>, <<" ">>, S_hi}

\* the finalized utterance of a spoken command
Utterances == {S_hi \o <<" ">> \o S_send}

\* message.content of a chat completion; <<>> is an empty or null content
ReplyContents == {<<"o", "k">>, <<>>}
TitleContents == {<<"\"", "T", "\"">>}

\* the key the user enters
ApiKeys == {"sk"}

\* name and content of the file the user uploads
DocName == "a.txt"
DocContent == "text"

\* a second version of that file, and a second file
OtherContent == "other"
OtherName == "b.txt"

----------------------------------------------------------------------------
(* Sessions *)

DateNow == ToString(clock)            \* Date.now().toString()

Message(role, content) == [role |-> role, content |-> content]

\* uid is not a field of the program's Chat: it names the object, so that a
\* property can follow one session among sessions that share an id
NewChat(id, messages, uid) ==
  [id |-> id, title |-> S_NewChat, messages |-> messages, uid |-> uid]

Remove(seq, i) == SubSeq(seq, 1, i - 1) \o SubSeq(seq, i + 1, Len(seq))

\* JSON.stringify(chats) and JSON.parse: an object becomes the sequence of
\* its key/value pairs in property order and back
StringifyMessage(m) == <<<<"role", m.role>>, <<"content", m.content>>>>
StringifyChat(c) ==
  <<<<"id", c.id>>, <<"title", c.title>>,
    <<"messages",
      [i \in 1..Len(c.messages) |-> StringifyMessage(c.messages[i])]>>>>
Stringify(cs) == [i \in 1..Len(cs) |-> StringifyChat(cs[i])]

ParseMessage(j) == [role |-> j[1][2], content |-> j[2][2]]
ParseChat(j) ==
  [id |-> j[1][2], title |-> j[2][2],
   messages |-> [i \in 1..Len(j[3][2]) |-> ParseMessage(j[3][2][i])]]
Parse(js) == [i \in 1..Len(js) |-> ParseChat(js[i])]

\* the effect without the write of the active id
Persist_ChatsOnly ==
  /\ stChats' = Stringify(chats')
  /\ stActive' = stActive

\* the effect that saves chats and the active id after a render that
\* changed either of them
Persist ==
  /\ stChats' = Stringify(chats')
  /\ stActive' = IF activeChatId' # Null THEN activeChatId' ELSE stActive

\* handleNewChat putting the new session after the others
HandleNewChat_AtTail ==
  /\ nextUid <= MaxCreated
  /\ chats' = chats \o <<NewChat(DateNow, <<>>, nextUid)>>
  /\ activeChatId' = DateNow
  /\ nextUid' = nextUid + 1
  /\ Persist
  /\ UNCHANGED <<isLoading, apiKey, voiceCommandToSend, ragVars, clock,
                 speechVars, sends, rejected, alerted, mounted>>

HandleNewChat ==
  /\ nextUid <= MaxCreated
  /\ chats' = <<NewChat(DateNow, <<>>, nextUid)>> \o chats
  /\ activeChatId' = DateNow
  /\ nextUid' = nextUid + 1
  /\ Persist
  /\ UNCHANGED <<isLoading, apiKey, voiceCommandToSend, ragVars, clock,
                 speechVars, sends, rejected, alerted, mounted>>

RemainingChats(chatId) == SelectSeq(chats, LAMBDA c : c.id # chatId)

HandleDeleteChat(i) ==
  LET chatId == chats[i].id
      remainingChats == RemainingChats(chatId)
  IN /\ chats' = remainingChats
     /\ activeChatId' =
          IF activeChatId = chatId
            THEN IF Len(remainingChats) > 0 THEN remainingChats[1].id
                                            ELSE Null
            ELSE activeChatId
     /\ Persist
     /\ UNCHANGED <<isLoading, apiKey, voiceCommandToSend, ragVars, clock,
                    speechVars, sends, rejected, alerted, mounted, nextUid>>

\* onClick={() => setActiveChatId(chat.id)} of a list item
SelectChat(i) ==
  /\ chats[i].id # activeChatId
  /\ activeChatId' = chats[i].id
  /\ chats' = chats
  /\ Persist
  /\ UNCHANGED <<isLoading, apiKey, voiceCommandToSend, ragVars, clock,
                 speechVars, sends, rejected, alerted, mounted, nextUid>>

\* time passes; ids are only compared for equality, so the clock need not
\* run ahead of the sessions that can still be created
Tick ==
  /\ clock < nextUid
  /\ nextUid <= MaxCreated
  /\ clock' = clock + 1
  /\ UNCHANGED <<sessionVars, isLoading, apiKey, voiceCommandToSend, ragVars,
                 speechVars, sends, rejected, alerted, mounted, nextUid>>

----------------------------------------------------------------------------
(* Documents and the retrieval index *)

LoadedDocument(name, content) == [name |-> name, content |-> content]

\* the FileList of a selection of one file
FileLists == {<<LoadedDocument(DocName, DocContent)>>}

NoRetriever == [present |-> FALSE, docs |-> <<>>]
\* vectorStore.asRetriever() of the index built from docs
Retriever(docs) == [present |-> TRUE, docs |-> docs]

StatusNoDocs        == [text |-> "No documents loaded.", n |-> 0]
StatusProcessing(n) == [text |-> "Processing n document(s)...", n |-> n]
StatusReady(n)      == [text |-> "Ready. n document(s) loaded.", n |-> n]
StatusError         == [text |-> "Error processing documents.", n |-> 0]

\* the selections of the file input: one file, two files, a file whose
\* name is in use with another content, two files of one name picked from
\* two folders
Selections ==
  {<<LoadedDocument(DocName, DocContent)>>,
   <<LoadedDocument(OtherName, DocContent)>>,
   <<LoadedDocument(DocName, OtherContent)>>,
   <<LoadedDocument(DocName, DocContent),
     LoadedDocument(OtherName, DocContent)>>,
   <<LoadedDocument(DocName, DocContent),
     LoadedDocument(DocName, OtherContent)>>}

\* no upload and no rebuild is pending
DocsIdle == builds = <<>> /\ reads = <<>>

\* the selections of files that are not in the list of documents yet
NewFiles ==
  {files \in FileLists :
     \A k \in 1..Len(files), j \in 1..Len(loadedDocuments) :
        files[k].name # loadedDocuments[j].name}

\* the call that leaves the index in place when no document is left
BuildRagFromLoadedDocs_KeepIndex(docs, key) ==
  IF Len(docs) = 0
    THEN /\ ragRetriever' = ragRetriever
         /\ ragStatus' = StatusNoDocs
         /\ builds' = builds
    ELSE /\ ragRetriever' = ragRetriever
         /\ ragStatus' = StatusProcessing(Len(docs))
         /\ builds' = Append(builds, [docs |-> docs, key |-> key])

\* the effect that calls buildRagFromLoadedDocs after a render that changed
\* apiKey or loadedDocuments, up to the first await of the call; docs and
\* key are the loadedDocuments and apiKey of that render
BuildRagFromLoadedDocs(docs, key) ==
  IF Len(docs) = 0
    THEN /\ ragRetriever' = NoRetriever
         /\ ragStatus' = StatusNoDocs
         /\ builds' = builds
    ELSE /\ ragRetriever' = ragRetriever
         /\ ragStatus' = StatusProcessing(Len(docs))
         /\ builds' = Append(builds, [docs |-> docs, key |-> key])

\* a rebuild that publishes only the index of the documents now loaded
BuildOk_IfCurrent(i) ==
  /\ ragRetriever' = IF builds[i].docs = loadedDocuments
                        THEN Retriever(builds[i].docs)
                        ELSE ragRetriever
  /\ ragStatus' = IF builds[i].docs = loadedDocuments
                     THEN StatusReady(Len(builds[i].docs))
                     ELSE ragStatus
  /\ builds' = Remove(builds, i)
  /\ UNCHANGED <<sessionVars, isLoading, apiKey, voiceCommandToSend,
                 loadedDocuments, reads, clock, speechVars, sends, rejected,
                 alerted, mounted, nextUid>>

\* splitDocuments and MemoryVectorStore.fromDocuments resolved
BuildOk(i) ==
  /\ ragRetriever' = Retriever(builds[i].docs)
  /\ ragStatus' = StatusReady(Len(builds[i].docs))
  /\ builds' = Remove(builds, i)
  /\ UNCHANGED <<sessionVars, isLoading, apiKey, voiceCommandToSend,
                 loadedDocuments, reads, clock, speechVars, sends, rejected,
                 alerted, mounted, nextUid>>

\* a catch block that drops the published index
BuildFail_ClearsIndex(i) ==
  /\ ragStatus' = StatusError
  /\ ragRetriever' = NoRetriever
  /\ builds' = Remove(builds, i)
  /\ UNCHANGED <<sessionVars, isLoading, apiKey, voiceCommandToSend,
                 loadedDocuments, reads, clock, speechVars, sends, rejected,
                 alerted, mounted, nextUid>>

\* one of them rejected
BuildFail(i) ==
  /\ ragStatus' = StatusError
  /\ builds' = Remove(builds, i)
  /\ UNCHANGED <<sessionVars, isLoading, apiKey, voiceCommandToSend,
                 ragRetriever, loadedDocuments, reads, clock, speechVars,
                 sends, rejected, alerted, mounted, nextUid>>

\* handleFileUpload up to the await of file.text()
HandleFileUpload(files) ==
  /\ IF apiKey = ""
       THEN reads' = reads /\ alerted' = TRUE            \* alert
       ELSE reads' = Append(reads, files) /\ alerted' = alerted
  /\ UNCHANGED <<sessionVars, isLoading, apiKey, voiceCommandToSend,
                 ragRetriever, ragStatus, loadedDocuments, builds, clock,
                 speechVars, sends, rejected, nextUid, mounted>>

ExistingNames(prevDocs) == {prevDocs[k].name : k \in 1..Len(prevDocs)}

AddDocuments(prevDocs, newDocs) ==
  prevDocs \o SelectSeq(newDocs, LAMBDA d : d.name \notin ExistingNames(prevDocs))

\* the files are read: setLoadedDocuments(prevDocs => ...)
FileReadDone(i) ==
  /\ loadedDocuments' = AddDocuments(loadedDocuments, reads[i])
  /\ reads' = Remove(reads, i)
  /\ BuildRagFromLoadedDocs(AddDocuments(loadedDocuments, reads[i]), apiKey)
  /\ UNCHANGED <<sessionVars, isLoading, apiKey, voiceCommandToSend, clock,
                 speechVars, sends, rejected, alerted, mounted, nextUid>>

RemoveDocument(prevDocs, docNameToRemove) ==
  SelectSeq(prevDocs, LAMBDA doc : doc.name # docNameToRemove)

HandleRemoveDocument(docNameToRemove) ==
  /\ loadedDocuments' = RemoveDocument(loadedDocuments, docNameToRemove)
  /\ BuildRagFromLoadedDocs(
       RemoveDocument(loadedDocuments, docNameToRemove), apiKey)
  /\ UNCHANGED <<sessionVars, isLoading, apiKey, voiceCommandToSend, reads,
                 clock, speechVars, sends, rejected, alerted, mounted,
                 nextUid>>

\* onChange of the API key input: setApiKey(e.target.value)
SetApiKey(v) ==
  /\ v # apiKey
  /\ apiKey' = v
  /\ loadedDocuments' = loadedDocuments
  /\ BuildRagFromLoadedDocs(loadedDocuments, v)
  /\ alerted' = FALSE
  /\ UNCHANGED <<sessionVars, isLoading, voiceCommandToSend, reads, clock,
                 speechVars, sends, rejected, nextUid, mounted>>

----------------------------------------------------------------------------
(* executeSend *)

SystemPrompt ==
  Message("system", <<"You are a helpful digital consciousness named Olly that has been created by Zachary Kulik as a demo for the company Olivia.">>)

ContextPrompt(context) ==
  Message("system", <<"Based on the following context, answer the user's question.\n\nContext:\n">> \o context)

\* relevantDocs.map(doc => doc.pageContent).join(...) of a retrieval
Contexts == {<<>>, <<"text">>}

\* the first element of cs whose id is id: cs.find(c => c.id === id)
Found(cs, id) == \E k \in 1..Len(cs) : cs[k].id = id
Find(cs, id) ==
  cs[CHOOSE k \in 1..Len(cs) :
       /\ cs[k].id = id
       /\ \A j \in 1..(k - 1) : cs[j].id # id]

\* the append written from a copy of the session taken before its rename
AppendMessage_ResetTitle(cs, id, m) ==
  [k \in 1..Len(cs) |->
     IF cs[k].id = id
       THEN [cs[k] EXCEPT !.messages = Append(cs[k].messages, m),
                          !.title = S_NewChat]
       ELSE cs[k]]

\* prev.map(c => c.id === id ? {...c, messages: [...c.messages, m]} : c)
AppendMessage(cs, id, m) ==
  [k \in 1..Len(cs) |->
     IF cs[k].id = id
       THEN [cs[k] EXCEPT !.messages = Append(cs[k].messages, m)]
       ELSE cs[k]]

\* prev.map(c => c.id === id ? {...c, title: newTitle} : c)
RenameChat(cs, id, newTitle) ==
  [k \in 1..Len(cs) |->
     IF cs[k].id = id THEN [cs[k] EXCEPT !.title = newTitle] ELSE cs[k]]

\* chats.map(c => c.id === activeChatId ? {...c, messages: updated} : c)
SetMessages(cs, id, updatedMessages) ==
  [k \in 1..Len(cs) |->
     IF cs[k].id = id THEN [cs[k] EXCEPT !.messages = updatedMessages]
                      ELSE cs[k]]

\* the test without trim(): only the empty text is blank
SendRejected_NoTrim(messageContent) ==
  messageContent = <<>> \/ isLoading

\* the test without the in-flight flag
SendRejected_NoLoading(messageContent) ==
  Trim(messageContent) = <<>>

\* the first test of executeSend
SendRejected(messageContent) ==
  Trim(messageContent) = <<>> \/ isLoading

\* a call suspended at ragRetriever.getRelevantDocuments: it holds the
\* chats and activeChatId of the render that created the callback
Retrieving(messageContent) ==
  [pc |-> "retrieve", text |-> messageContent, cChats |-> chats,
   cActive |-> activeChatId, target |-> Null, targetUid |-> 0,
   messages |-> <<>>, context |-> <<>>, appended |-> FALSE, titleReqs |-> 0,
   cMuted |-> isMuted]

\* no title request: the main request is issued at once
Requesting_NoTitle(messageContent, targetChat, context, cMuted) ==
  [pc |-> "main",
   text |-> messageContent, cChats |-> <<>>, cActive |-> Null,
   target |-> targetChat.id, targetUid |-> targetChat.uid,
   messages |-> targetChat.messages,
   context |-> context, appended |-> TRUE, titleReqs |-> 0,
   cMuted |-> cMuted]

\* a call suspended at a chat completion: the title request when the
\* target has one message, the main request otherwise
Requesting(messageContent, targetChat, context, cMuted) ==
  [pc |-> IF Len(targetChat.messages) = 1 THEN "title" ELSE "main",
   text |-> messageContent, cChats |-> <<>>, cActive |-> Null,
   target |-> targetChat.id, targetUid |-> targetChat.uid,
   messages |-> targetChat.messages,
   context |-> context, appended |-> TRUE,
   titleReqs |-> IF Len(targetChat.messages) = 1 THEN 1 ELSE 0,
   cMuted |-> cMuted]

\* messagesForApi with the system message after the history
MessagesForApi_SystemLast(send) ==
  send.messages \o <<IF send.context # <<>> THEN ContextPrompt(send.context)
                                            ELSE SystemPrompt>>

\* messagesForApi of the main request
MessagesForApi(send) ==
  <<IF send.context # <<>> THEN ContextPrompt(send.context)
                           ELSE SystemPrompt>> \o send.messages

\* executeSend from the choice of the system message to the first
\* completion request, run by a callback whose closure holds cChats,
\* cActive and a speak made while isMuted was cMuted; rest are the other
\* suspended calls
DetermineTarget(rest, messageContent, cChats, cActive, cMuted, context) ==
  LET userMessage == Message("user", messageContent)
  IN IF cActive # Null
       THEN IF Found(cChats, cActive)
              THEN LET currentChat == Find(cChats, cActive)
                       updatedMessages ==
                         Append(currentChat.messages, userMessage)
                       targetChat ==
                         [currentChat EXCEPT !.messages = updatedMessages]
                   IN /\ chats' = SetMessages(cChats, cActive, updatedMessages)
                      /\ activeChatId' = activeChatId
                      /\ sends' = Append(rest,
                           Requesting(messageContent, targetChat, context, cMuted))
                      /\ nextUid' = nextUid
                      /\ Persist
              ELSE \* currentChat is undefined: reading its messages throws
                   /\ sends' = rest
                   /\ UNCHANGED <<sessionVars, nextUid>>
       ELSE LET targetChat == NewChat(DateNow, <<userMessage>>, nextUid)
            IN /\ activeChatId' = targetChat.id
               /\ chats' = <<targetChat>> \o chats
               /\ sends' = Append(rest,
                    Requesting(messageContent, targetChat, context, cMuted))
               /\ nextUid' = nextUid + 1
               /\ Persist

\* the active session has fewer than max messages, or a session can still
\* be created for the send
RoomFor(max) ==
  \/ ~Found(chats, activeChatId) /\ nextUid <= MaxCreated
  \/ Found(chats, activeChatId)
       /\ Len(Find(chats, activeChatId).messages) < max

\* the active session has room for one more exchange
Room == RoomFor(MaxMsgs)

\* the submission is refused, or the sessions have room for what it appends
CanSend(messageContent, room) ==
  IF SendRejected(messageContent) \/ apiKey = "" THEN TRUE ELSE room

\* executeSend without the test of the API key
ExecuteSend_NoKeyCheck(messageContent) ==
  IF SendRejected(messageContent)
    THEN /\ rejected' = isLoading
         /\ UNCHANGED <<sessionVars, isLoading, sends, nextUid, alerted>>
    ELSE /\ rejected' = FALSE
         /\ alerted' = alerted
         /\ isLoading' = TRUE
         /\ IF ragRetriever.present
              THEN /\ sends' = Append(sends, Retrieving(messageContent))
                   /\ UNCHANGED <<sessionVars, nextUid>>
              ELSE DetermineTarget(sends, messageContent, chats,
                                   activeChatId, isMuted, <<>>)

\* executeSend up to its first await
ExecuteSend(messageContent) ==
  IF SendRejected(messageContent)
    THEN /\ rejected' = isLoading
         /\ UNCHANGED <<sessionVars, isLoading, sends, nextUid, alerted>>
    ELSE IF apiKey = ""
      THEN /\ alerted' = TRUE                           \* alert
           /\ UNCHANGED <<sessionVars, isLoading, sends, nextUid, rejected>>
      ELSE /\ rejected' = FALSE
           /\ alerted' = alerted
           /\ isLoading' = TRUE
           /\ IF ragRetriever.present
                THEN /\ sends' = Append(sends, Retrieving(messageContent))
                     /\ UNCHANGED <<sessionVars, nextUid>>
                ELSE DetermineTarget(sends, messageContent, chats,
                                     activeChatId, isMuted, <<>>)

\* handleSend / handleKeyPress: executeSend(input)
HandleSend(input) ==
  /\ ExecuteSend(input)
  /\ UNCHANGED <<apiKey, voiceCommandToSend, ragVars, clock, speechVars,
                 mounted>>

\* a result of the recognizer: transcript of its first alternative, isFinal
SpeechResult(transcript, isFinal) ==
  [transcript |-> transcript, isFinal |-> isFinal]

\* event.results of the next result event: a final result is followed by a
\* new entry, an interim result is replaced by its next version
EventResults(result) ==
  IF results # <<>> /\ ~results[Len(results)].isFinal
    THEN [results EXCEPT ![Len(results)] = result]
    ELSE Append(results, result)

\* the loop over event.results from utteranceStartIndexRef.current
RECURSIVE CurrentUtterance(_, _)
CurrentUtterance(eventResults, start) ==
  IF start >= Len(eventResults)
    THEN <<>>
    ELSE eventResults[start + 1].transcript
           \o CurrentUtterance(eventResults, start + 1)

\* recognition.onresult for the event that delivers result
RecognitionOnResult(result) ==
  LET eventResults == EventResults(result)
      currentUtterance ==
        CurrentUtterance(eventResults, utteranceStartIndexRef)
      lastResult == eventResults[Len(eventResults)]
      messageToSend == Trim(SendCommandRegexReplace(currentUtterance))
      command == /\ lastResult.isFinal
                 /\ SendCommandRegexTest(currentUtterance)
                 /\ messageToSend # <<>>
  IN /\ results' = eventResults
     /\ voiceCommandToSend' =
          IF command THEN Some(messageToSend) ELSE voiceCommandToSend
     /\ utteranceStartIndexRef' =
          IF command THEN Len(eventResults) ELSE utteranceStartIndexRef
     /\ UNCHANGED <<sessionVars, isLoading, apiKey, ragVars, clock, sends,
                    rejected, alerted, mounted, nextUid, walkVars, isMuted,
                    speechSynthesis>>

\* what the recognizer delivers: a phrase, the command word as a result of
\* its own, a phrase with the command word, the same as an interim result,
\* and the command word after a blank phrase
SpeechResults ==
  {SpeechResult(S_hi, TRUE),
   SpeechResult(<<" ", "S", "e", "n", "t">>, TRUE),
   SpeechResult(S_hi \o <<" ">> \o S_send, TRUE),
   SpeechResult(S_hi \o <<" ">> \o S_send, FALSE),
   SpeechResult(<<" ", " ">> \o S_send, TRUE)}

\* toggleListen while not listening: the boundary is reset and the
\* recognizer starts a session with no results
StartListening ==
  /\ utteranceStartIndexRef' = 0
  /\ results' = <<>>
  /\ UNCHANGED <<sessionVars, isLoading, apiKey, voiceCommandToSend, ragVars,
                 clock, sends, rejected, alerted, mounted, nextUid,
                 walkVars, isMuted, speechSynthesis>>

\* the effect on voiceCommandToSend
VoiceCommandEffect ==
  /\ voiceCommandToSend # None
  /\ ExecuteSend(voiceCommandToSend[1])
  /\ voiceCommandToSend' = None
  /\ UNCHANGED <<apiKey, ragVars, clock, speechVars, mounted>>

\* getRelevantDocuments resolved
RetrieveOk(i, context) ==
  /\ sends[i].pc = "retrieve"
  /\ DetermineTarget(Remove(sends, i), sends[i].text, sends[i].cChats,
                     sends[i].cActive, sends[i].cMuted, context)
  /\ UNCHANGED <<isLoading, apiKey, voiceCommandToSend, ragVars, clock,
                 speechVars, rejected, alerted, mounted>>

\* getRelevantDocuments rejected: the await is outside the try block
RetrieveFail(i) ==
  /\ sends[i].pc = "retrieve"
  /\ sends' = Remove(sends, i)
  /\ UNCHANGED <<sessionVars, isLoading, apiKey, voiceCommandToSend, ragVars,
                 clock, speechVars, rejected, alerted, mounted, nextUid>>

\* the title request resolved: rename, then issue the main request
TitleOk(i, content) ==
  /\ sends[i].pc = "title"
  /\ chats' = RenameChat(chats, sends[i].target, NewTitle(content))
  /\ activeChatId' = activeChatId
  /\ Persist
  /\ sends' = [sends EXCEPT ![i].pc = "main"]
  /\ UNCHANGED <<isLoading, apiKey, voiceCommandToSend, ragVars, clock,
                 speechVars, rejected, alerted, mounted, nextUid>>

\* speak of a render whose isMuted was muted: cancel() and speak(utterance)
Speak(muted, text) ==
  speechSynthesis' =
    IF muted \/ ~speechSynthesis.supported
      THEN speechSynthesis
      ELSE [speechSynthesis EXCEPT !.utterance = text]

\* the utterance has been spoken to its end
UtteranceEnd ==
  /\ speechSynthesis.utterance # <<>>
  /\ speechSynthesis' = [speechSynthesis EXCEPT !.utterance = <<>>]
  /\ UNCHANGED <<sessionVars, isLoading, apiKey, voiceCommandToSend, ragVars,
                 clock, results, utteranceStartIndexRef, walkVars, isMuted, sends,
                 rejected, alerted, mounted, nextUid>>

\* onClick={() => setIsMuted(!isMuted)} of the mute button
ToggleMute ==
  /\ isMuted' = ~isMuted
  /\ UNCHANGED <<sessionVars, isLoading, apiKey, voiceCommandToSend, ragVars,
                 clock, results, utteranceStartIndexRef, speechSynthesis,
                 walkVars, sends, rejected, alerted, mounted, nextUid>>

\* the catch block without the finally block
Catch_NoFinally(i) ==
  /\ Speak(sends[i].cMuted, ErrorMessageContent)
  /\ chats' = AppendMessage(chats, sends[i].target,
                            Message("assistant", ErrorMessageContent))
  /\ activeChatId' = activeChatId
  /\ Persist
  /\ isLoading' = isLoading
  /\ sends' = Remove(sends, i)
  /\ rejected' = FALSE
  /\ UNCHANGED <<apiKey, voiceCommandToSend, ragVars, clock, results,
                 utteranceStartIndexRef, walkVars, isMuted, nextUid, alerted, mounted>>

\* the catch block followed by the finally block
Catch(i) ==
  /\ Speak(sends[i].cMuted, ErrorMessageContent)
  /\ chats' = AppendMessage(chats, sends[i].target,
                            Message("assistant", ErrorMessageContent))
  /\ activeChatId' = activeChatId
  /\ Persist
  /\ isLoading' = FALSE
  /\ sends' = Remove(sends, i)
  /\ rejected' = FALSE
  /\ UNCHANGED <<apiKey, voiceCommandToSend, ragVars, clock, results,
                 utteranceStartIndexRef, walkVars, isMuted, nextUid, alerted, mounted>>

\* the title request rejected, or its response has no choices
TitleFail(i) ==
  /\ sends[i].pc = "title"
  /\ Catch(i)

\* the main request resolved
MainOk(i, content) ==
  /\ sends[i].pc = "main"
  /\ IF content # <<>>
       THEN /\ Speak(sends[i].cMuted, content)
            /\ chats' = AppendMessage(chats, sends[i].target,
                                      Message("assistant", content))
            /\ activeChatId' = activeChatId
            /\ Persist
       ELSE UNCHANGED <<sessionVars, speechSynthesis>>
  /\ isLoading' = FALSE
  /\ sends' = Remove(sends, i)
  /\ rejected' = FALSE
  /\ UNCHANGED <<apiKey, voiceCommandToSend, ragVars, clock, results,
                 utteranceStartIndexRef, walkVars, isMuted, nextUid, alerted, mounted>>

\* the main request rejected, or its response has no choices
MainFail(i) ==
  /\ sends[i].pc = "main"
  /\ Catch(i)

----------------------------------------------------------------------------
(* The walkthrough *)

\* walkthroughData; the audio files are named by their import
WalkthroughData ==
  <<[text |-> "For this project I wanted to spin up what is basically a quick chatgpt wrapper but with both text to speech and speech to text so that you can have a continuous conversation with the bot verbally on desktop.",
     targetId |-> "main-chat-area", audioSrc |-> "audio1"],
    [text |-> "I also added RAG by way of Langchain.",
     targetId |-> "rag-controls", audioSrc |-> "audio2"],
    [text |-> "I try to avoid overloading Cursor with features so I immediately started with a simple prompt to create a React page chatbot with the baseline MVP requirements outlined in the assignment.",
     targetId |-> "main-chat-area", audioSrc |-> "audio3"],
    [text |-> "I wanted to make sure I was building from the ground-up for deployment though, so I ensured that it would be able to launch on GitHub pages.",
     targetId |-> "main-chat-area", audioSrc |-> "audio4"],
    [text |-> "Next, I decided to align with Olivia's colours and add a dropdown for selecting different LLMs.",
     targetId |-> "app-header", audioSrc |-> "audio5"],
    [text |-> "I didn't want you to have to re-enter your api key every time so I make sure the user's browser keeps it in localstorage.",
     targetId |-> "api-key-input", audioSrc |-> "audio6"],
    [text |-> "I also copied the ChatGPT functionality to autogenerate a title for each chat when they are first messaged.",
     targetId |-> "chat-title-target", audioSrc |-> "audio7"],
    [text |-> "Next, I implemented text to speech for interacting with the bot verbally.",
     targetId |-> "tts-button", audioSrc |-> "audio8"],
    [text |-> "And finally, I added speech to text so the user can talk back.",
     targetId |-> "stt-button", audioSrc |-> "audio9"],
    [text |-> "That brings us to the end of the walkthrough. I hope you enjoy using the app and I hope to hear back from you soon!",
     targetId |-> "main-chat-area", audioSrc |-> "audio10"]>>

\* an Audio element: what it does, its src, and the currentIndex of the
\* closure its onended and onerror handlers belong to
AudioPlayer(state, src, currentIndex) ==
  [state |-> state, src |-> src, currentIndex |-> currentIndex]

\* new Audio()
NewAudio == AudioPlayer("idle", "", 0)

\* playNext of the call whose player is number p of ps and whose
\* currentIndex is currentIndex, run after isWalkthroughActive was set to
\* active; the place of the box on the page is left out
PlayNext(ps, p, currentIndex, active) ==
  IF currentIndex >= Len(WalkthroughData)
    THEN /\ isWalkthroughActive' = FALSE
         /\ speechBox' = [speechBox EXCEPT !.visible = FALSE]
         /\ players' = [ps EXCEPT ![p].currentIndex = currentIndex]
    ELSE LET step == WalkthroughData[currentIndex + 1]
         IN /\ isWalkthroughActive' = active
            /\ speechBox' = [visible |-> TRUE, text |-> step.text]
            /\ players' = [ps EXCEPT
                 ![p] = AudioPlayer("playing", step.audioSrc, currentIndex)]

\* pause() on the element: nothing changes unless it is playing
Pause(player) ==
  IF player.state = "playing" THEN [player EXCEPT !.state = "paused"]
                              ELSE player

\* startWalkthrough, the onClick of the walkthrough button
StartWalkthrough ==
  /\ IF isWalkthroughActive
       THEN /\ players' =
                 IF audioPlayerRef # 0
                   THEN [players EXCEPT ![audioPlayerRef] = Pause(@)]
                   ELSE players
            /\ isWalkthroughActive' = FALSE
            /\ speechBox' = [speechBox EXCEPT !.visible = FALSE]
            /\ audioPlayerRef' = audioPlayerRef
       ELSE /\ Len(players) < MaxWalks
            /\ audioPlayerRef' = Len(players) + 1
            /\ PlayNext(Append(players, NewAudio), Len(players) + 1, 0, TRUE)
  /\ UNCHANGED <<sessionVars, isLoading, apiKey, voiceCommandToSend, ragVars,
                 clock, results, utteranceStartIndexRef, isMuted,
                 speechSynthesis, sends, rejected, alerted, mounted, nextUid>>

\* audioPlayer.onended of player p: the audio of its step has ended
AudioEnded(p) ==
  /\ players[p].state = "playing"
  /\ PlayNext([players EXCEPT ![p].state = "ended"], p,
              players[p].currentIndex + 1, isWalkthroughActive)
  /\ UNCHANGED <<audioPlayerRef, sessionVars, isLoading, apiKey,
                 voiceCommandToSend, ragVars, clock, results,
                 utteranceStartIndexRef, isMuted, speechSynthesis, sends,
                 rejected, alerted, mounted, nextUid>>

\* audioPlayer.onerror of player p: its file cannot be fetched or decoded,
\* which a pause does not prevent
AudioError(p) ==
  /\ players[p].state \in {"playing", "paused"}
  /\ players' = [players EXCEPT ![p].state = "error"]
  /\ isWalkthroughActive' = FALSE
  /\ speechBox' = [speechBox EXCEPT !.visible = FALSE]
  /\ UNCHANGED <<audioPlayerRef, sessionVars, isLoading, apiKey,
                 voiceCommandToSend, ragVars, clock, results,
                 utteranceStartIndexRef, isMuted, speechSynthesis, sends,
                 rejected, alerted, mounted, nextUid>>

----------------------------------------------------------------------------
(* The application after its first render and mount effects, started with
   an empty localStorage, in a browser without window.speechSynthesis *)

Init ==
  /\ clock = 1
  /\ chats = <<NewChat(ToString(1), <<>>, 1)>>
  /\ activeChatId = ToString(1)
  /\ isLoading = FALSE
  /\ apiKey = ""
  /\ voiceCommandToSend = None
  /\ ragRetriever = NoRetriever
  /\ ragStatus = StatusNoDocs
  /\ loadedDocuments = <<>>
  /\ sends = <<>>
  /\ builds = <<>>
  /\ reads = <<>>
  /\ stChats = Stringify(<<NewChat(ToString(1), <<>>, 1)>>)
  /\ stActive = ToString(1)
  /\ rejected = FALSE
  /\ nextUid = 2
  /\ results = <<>>
  /\ utteranceStartIndexRef = 0
  /\ alerted = FALSE
  /\ mounted = "new"
  /\ isMuted = FALSE
  /\ speechSynthesis = [supported |-> FALSE, utterance |-> <<>>]
  /\ isWalkthroughActive = FALSE
  /\ speechBox = [visible |-> FALSE, text |-> ""]
  /\ audioPlayerRef = 0
  /\ players = <<>>

\* the Chat objects JSON.parse returns; the uid follows the position, which
\* the saved list shares with the list it was written from
SavedChats ==
  LET savedChats == Parse(stChats)
  IN [k \in 1..Len(savedChats) |->
        [id |-> savedChats[k].id, title |-> savedChats[k].title,
         messages |-> savedChats[k].messages, uid |-> chats[k].uid]]

\* a mount effect that takes the saved active id as it is
Reload_SavedId ==
  /\ isLoading' = FALSE
  /\ voiceCommandToSend' = None
  /\ ragRetriever' = NoRetriever
  /\ ragStatus' = StatusNoDocs
  /\ loadedDocuments' = <<>>
  /\ sends' = <<>>
  /\ builds' = <<>>
  /\ reads' = <<>>
  /\ results' = <<>>
  /\ utteranceStartIndexRef' = 0
  /\ rejected' = FALSE
  /\ alerted' = FALSE
  /\ isMuted' = FALSE
  /\ isWalkthroughActive' = FALSE
  /\ speechBox' = [visible |-> FALSE, text |-> ""]
  /\ audioPlayerRef' = 0
  /\ players' = <<>>
  /\ UNCHANGED <<apiKey, clock, speechSynthesis>>
  /\ IF Len(SavedChats) > 0
       THEN /\ chats' = SavedChats
            /\ activeChatId' = stActive
            /\ nextUid' = nextUid
            /\ mounted' =
                 IF Found(SavedChats, stActive) THEN "saved" ELSE "first"
       ELSE /\ nextUid <= MaxCreated
            /\ chats' = <<NewChat(DateNow, <<>>, nextUid)>>
            /\ activeChatId' = DateNow
            /\ nextUid' = nextUid + 1
            /\ mounted' = "new"
  /\ Persist

\* the page is loaded again: useState initial values (the requests, rebuilds
\* and file reads of the old page are gone, localStorage stays), then the
\* mount effect, the rebuild effect and the persist effect
Reload ==
  /\ isLoading' = FALSE
  /\ voiceCommandToSend' = None
  /\ ragRetriever' = NoRetriever
  /\ ragStatus' = StatusNoDocs
  /\ loadedDocuments' = <<>>
  /\ sends' = <<>>
  /\ builds' = <<>>
  /\ reads' = <<>>
  /\ results' = <<>>
  /\ utteranceStartIndexRef' = 0
  /\ rejected' = FALSE
  /\ alerted' = FALSE
  /\ isMuted' = FALSE
  /\ isWalkthroughActive' = FALSE
  /\ speechBox' = [visible |-> FALSE, text |-> ""]
  /\ audioPlayerRef' = 0
  /\ players' = <<>>
  /\ UNCHANGED <<apiKey, clock, speechSynthesis>>
  /\ IF Len(SavedChats) > 0
       THEN /\ chats' = SavedChats
            /\ activeChatId' =
                 IF Found(SavedChats, stActive) THEN stActive
                                                ELSE SavedChats[1].id
            /\ nextUid' = nextUid
            /\ mounted' =
                 IF Found(SavedChats, stActive) THEN "saved" ELSE "first"
       ELSE \* handleNewChat of the first render, whose chats is []
            /\ nextUid <= MaxCreated
            /\ chats' = <<NewChat(DateNow, <<>>, nextUid)>>
            /\ activeChatId' = DateNow
            /\ nextUid' = nextUid + 1
            /\ mounted' = "new"
  /\ Persist

\* what the user does; the documents change while no upload and no rebuild
\* is pending, and a recognition session is restarted after its first result
UserStep ==
  \/ HandleNewChat
  \/ \E i \in 1..Len(chats) : HandleDeleteChat(i)
  \/ \E i \in 1..Len(chats) : SelectChat(i)
  \/ \E input \in SendTexts : CanSend(input, Room) /\ HandleSend(input)
  \/ \E u \in Utterances :
        results = <<>> /\ RecognitionOnResult(SpeechResult(u, TRUE))
  \/ results # <<>> /\ StartListening
  \/ DocsIdle /\ \E v \in ApiKeys : SetApiKey(v)
  \/ DocsIdle /\ \E files \in NewFiles : HandleFileUpload(files)

EffectStep ==
  /\ voiceCommandToSend # None
  /\ CanSend(voiceCommandToSend[1], Room)
  /\ VoiceCommandEffect

NetworkStep ==
  \/ \E i \in 1..Len(sends), c \in Contexts : RetrieveOk(i, c)
  \/ \E i \in 1..Len(sends) : RetrieveFail(i)
  \/ \E i \in 1..Len(sends), c \in TitleContents : TitleOk(i, c)
  \/ \E i \in 1..Len(sends) : TitleFail(i)
  \/ \E i \in 1..Len(sends), c \in ReplyContents : MainOk(i, c)
  \/ \E i \in 1..Len(sends) : MainFail(i)
  \/ \E i \in 1..Len(reads) : FileReadDone(i)
  \/ \E i \in 1..Len(builds) : BuildOk(i)
  \/ \E i \in 1..Len(builds) : BuildFail(i)

\* the effect of the render that set voiceCommandToSend runs with that
\* render's closure, before any later event is handled
Next ==
  \/ EffectStep
  \/ voiceCommandToSend = None /\ Tick
  \/ voiceCommandToSend = None /\ UserStep
  \/ voiceCommandToSend = None /\ NetworkStep

Spec == Init /\ [][Next]_vars

\* the send steps alone, with the documents that make a retriever present
SendNext ==
  \/ \E input \in SendTexts : CanSend(input, Room) /\ HandleSend(input)
  \/ DocsIdle /\ \E v \in ApiKeys : SetApiKey(v)
  \/ DocsIdle /\ \E files \in FileLists : HandleFileUpload(files)
  \/ NetworkStep

\* every request and every file read ends: it resolves or it rejects
FairSend == Init /\ [][SendNext]_vars /\ WF_vars(NetworkStep)

\* the sessions with typed sends whose requests resolve, and the page loaded
\* again at any time
ReloadNext ==
  \/ Tick
  \/ HandleNewChat
  \/ \E i \in 1..Len(chats) : HandleDeleteChat(i)
  \/ \E i \in 1..Len(chats) : SelectChat(i)
  \/ CanSend(S_hi, Room) /\ HandleSend(S_hi)
  \/ DocsIdle /\ \E v \in ApiKeys : SetApiKey(v)
  \/ DocsIdle /\ \E files \in NewFiles : HandleFileUpload(files)
  \/ \E i \in 1..Len(reads) : FileReadDone(i)
  \/ \E i \in 1..Len(builds) : BuildOk(i)
  \/ \E i \in 1..Len(sends), c \in Contexts : RetrieveOk(i, c)
  \/ \E i \in 1..Len(sends), c \in TitleContents : TitleOk(i, c)
  \/ \E i \in 1..Len(sends), c \in ReplyContents : MainOk(i, c)
  \/ Reload

SpecReload == Init /\ [][ReloadNext]_vars

\* speech: results of a recognition session, the commands they hold and the
\* sends these submit
VoiceStep ==
  \/ \E r \in SpeechResults :
        Len(results) < MaxResults /\ RecognitionOnResult(r)
  \/ results # <<>> /\ StartListening
  \/ \E v \in ApiKeys : SetApiKey(v)
  \/ \E i \in 1..Len(sends), c \in TitleContents : TitleOk(i, c)
  \/ \E i \in 1..Len(sends), c \in ReplyContents : MainOk(i, c)

VoiceNext ==
  \/ EffectStep
  \/ voiceCommandToSend = None /\ VoiceStep

SpecVoice == Init /\ [][VoiceNext]_vars

\* the documents and the index: uploads, removals and rebuilds overlap
DocumentStep ==
  \/ Len(builds) < MaxBuilds /\ \E v \in ApiKeys : SetApiKey(v)
  \/ Len(reads) < MaxReads
       /\ \E files \in Selections : HandleFileUpload(files)
  \/ Len(builds) < MaxBuilds
       /\ \E k \in 1..Len(loadedDocuments) :
            HandleRemoveDocument(loadedDocuments[k].name)
  \/ Len(builds) < MaxBuilds
       /\ \E i \in 1..Len(reads) : FileReadDone(i)
  \/ \E i \in 1..Len(builds) : BuildOk(i)
  \/ \E i \in 1..Len(builds) : BuildFail(i)

RequestStep ==
  \/ \E i \in 1..Len(sends), c \in Contexts : RetrieveOk(i, c)
  \/ \E i \in 1..Len(sends) : RetrieveFail(i)
  \/ \E i \in 1..Len(sends), c \in TitleContents : TitleOk(i, c)
  \/ \E i \in 1..Len(sends) : TitleFail(i)
  \/ \E i \in 1..Len(sends), c \in ReplyContents : MainOk(i, c)
  \/ \E i \in 1..Len(sends) : MainFail(i)

SpecRag == Init /\ [][DocumentStep]_vars

\* the same with sends submitted to the one session
RagSendNext ==
  \/ DocumentStep
  \/ CanSend(S_hi, Room) /\ HandleSend(S_hi)
  \/ RequestStep

SpecRagSend == Init /\ [][RagSendNext]_vars

\* sends to sessions that have a history, before and after a document is
\* loaded and its index is built
PromptNext ==
  \/ Tick
  \/ HandleNewChat
  \/ CanSend(S_hi, RoomFor(MaxHistory)) /\ HandleSend(S_hi)
  \/ DocsIdle /\ \E v \in ApiKeys : SetApiKey(v)
  \/ DocsIdle /\ \E files \in NewFiles : HandleFileUpload(files)
  \/ \E i \in 1..Len(reads) : FileReadDone(i)
  \/ \E i \in 1..Len(builds) : BuildOk(i)
  \/ \E i \in 1..Len(sends), c \in Contexts : RetrieveOk(i, c)
  \/ \E i \in 1..Len(sends), c \in TitleContents : TitleOk(i, c)
  \/ \E i \in 1..Len(sends), c \in ReplyContents : MainOk(i, c)
  \/ \E i \in 1..Len(sends) : MainFail(i)

SpecPrompt == Init /\ [][PromptNext]_vars

\* the walkthrough button and the events of the audio players
WalkNext ==
  \/ StartWalkthrough
  \/ \E p \in 1..Len(players) : AudioEnded(p)
  \/ \E p \in 1..Len(players) : AudioError(p)

SpecWalk == Init /\ [][WalkNext]_vars

\* the application started in a browser that has window.speechSynthesis
InitSpeak ==
  /\ clock = 1
  /\ chats = <<NewChat(ToString(1), <<>>, 1)>>
  /\ activeChatId = ToString(1)
  /\ isLoading = FALSE
  /\ apiKey = ""
  /\ voiceCommandToSend = None
  /\ ragRetriever = NoRetriever
  /\ ragStatus = StatusNoDocs
  /\ loadedDocuments = <<>>
  /\ sends = <<>>
  /\ builds = <<>>
  /\ reads = <<>>
  /\ stChats = Stringify(<<NewChat(ToString(1), <<>>, 1)>>)
  /\ stActive = ToString(1)
  /\ rejected = FALSE
  /\ nextUid = 2
  /\ results = <<>>
  /\ utteranceStartIndexRef = 0
  /\ alerted = FALSE
  /\ mounted = "new"
  /\ isMuted = FALSE
  /\ speechSynthesis = [supported |-> TRUE, utterance |-> <<>>]
  /\ isWalkthroughActive = FALSE
  /\ speechBox = [visible |-> FALSE, text |-> ""]
  /\ audioPlayerRef = 0
  /\ players = <<>>

\* typed sends and their replies, spoken unless muted, with the mute button
SpeakNext ==
  \/ HandleNewChat
  \/ \E input \in SendTexts : CanSend(input, Room) /\ HandleSend(input)
  \/ \E v \in ApiKeys : SetApiKey(v)
  \/ ToggleMute
  \/ UtteranceEnd
  \/ \E i \in 1..Len(sends), c \in TitleContents : TitleOk(i, c)
  \/ \E i \in 1..Len(sends) : TitleFail(i)
  \/ \E i \in 1..Len(sends), c \in ReplyContents : MainOk(i, c)
  \/ \E i \in 1..Len(sends) : MainFail(i)

SpecSpeak == InitSpeak /\ [][SpeakNext]_vars

----------------------------------------------------------------------------
(* Properties *)

UserMessages(ms) == SelectSeq(ms, LAMBDA m : m.role = "user")

\* C1: the active id is never null while the session list is non-empty and
\* never an id that is absent from the list (that it names one session only
\* is the uniqueness of C2)
C1_ActiveResolves ==
  IF chats = <<>> THEN activeChatId = Null
                  ELSE Found(chats, activeChatId)

\* C2: no two sessions of the list share an id
C2_UniqueIds ==
  \A j, k \in 1..Len(chats) : j # k => chats[j].id # chats[k].id

\* C3: a send with blank text, or issued while the in-flight flag is set,
\* changes neither the session list, nor the active id, nor the flag, and
\* issues no request
C3_RejectedSendIsNoOp ==
  [][/\ \A t \in SendTexts :
          (HandleSend(t) /\ (Trim(t) = <<>> \/ isLoading))
          => UNCHANGED <<chats, activeChatId, isLoading, sends>>
     /\ (VoiceCommandEffect /\ isLoading)
          => UNCHANGED <<chats, activeChatId, isLoading, sends>>]_vars

C3_Witness ==
  /\ rejected
  /\ isLoading
  /\ Len(sends) = 1
  /\ sends[1].pc = "main"

\* C4: at most one executeSend call is between its acceptance and its last
\* step, and the in-flight flag is set while it is
C4_OneSending ==
  /\ Len(sends) <= 1
  /\ Len(sends) = 1 => isLoading

C4_Witness ==
  /\ rejected
  /\ Len(sends) = 1
  /\ sends[1].pc = "title"
  /\ voiceCommandToSend = None

\* C5: once the in-flight flag is set it is eventually cleared
C5_EventuallyIdle == isLoading ~> ~isLoading

C7_FallbackText ==
  <<"S", "o", "r", "r", "y", ",", " ", "s", "o", "m", "e", "t", "h", "i",
    "n", "g", " ", "w", "e", "n", "t", " ", "w", "r", "o", "n", "g", ".">>

\* C7: when a completion request fails, the target session, if it is in
\* the list, holds the messages it had at submission, the user message and
\* then the fallback message, and the in-flight flag is cleared
C7_FallbackOnFailure ==
  [][\A i \in 1..Len(sends) :
       (MainFail(i) \/ TitleFail(i))
       => /\ ~isLoading'
          /\ \A k \in 1..Len(chats') :
               chats'[k].uid = sends[i].targetUid
               => /\ chats'[k].messages =
                       Append(sends[i].messages,
                              Message("assistant", C7_FallbackText))
                  /\ sends[i].messages[Len(sends[i].messages)]
                       = Message("user", sends[i].text)
                  /\ Len(UserMessages(chats'[k].messages))
                       = Len(UserMessages(chats[k].messages))]_vars

C7_Witness ==
  /\ ~isLoading
  /\ sends = <<>>
  /\ \E k \in 1..Len(chats) :
       /\ Len(chats[k].messages) = 2
       /\ chats[k].messages[1].role = "user"
       /\ chats[k].messages[2] = Message("assistant", C7_FallbackText)
       /\ chats[k].title # S_NewChat

\* C8: when the title request fails, the main request of the same send is
\* issued
C8_TitleFailureKeepsMain ==
  [][\A i \in 1..Len(sends) :
       TitleFail(i)
       => \E j \in 1..Len(sends') :
            /\ sends'[j].pc = "main"
            /\ sends'[j].targetUid = sends[i].targetUid]_vars

\* C9: while a request of a send is outstanding, the user message of that
\* send has been appended
C9_AppendBeforeRequest ==
  \A i \in 1..Len(sends) :
    sends[i].pc \in {"retrieve", "title", "main"} => sends[i].appended

\* C10: deleting the session at position i removes that session and no
\* other, keeps the order of the rest, and makes the head of the rest (or
\* none) active when the deleted session was active
C10_DeleteOne ==
  [][\A i \in 1..Len(chats) :
       HandleDeleteChat(i)
       => /\ chats' = Remove(chats, i)
          /\ activeChatId' =
               IF activeChatId = chats[i].id
                 THEN IF Len(chats) > 1 THEN Remove(chats, i)[1].id ELSE Null
                 ELSE activeChatId]_vars

\* C11: no two entries of the document list share a name
C11_UniqueNames ==
  \A j, k \in 1..Len(loadedDocuments) :
    j # k => loadedDocuments[j].name # loadedDocuments[k].name

\* C12: when a removal leaves no document, the index is absent and the
\* status is "No documents loaded." after it
C12_RemoveLastClearsIndex ==
  [][\A k \in 1..Len(loadedDocuments) :
       (/\ HandleRemoveDocument(loadedDocuments[k].name)
        /\ loadedDocuments' = <<>>)
       => /\ ~ragRetriever'.present
          /\ ragStatus'.text = "No documents loaded."]_vars

C12_Witness ==
  /\ loadedDocuments = <<>>
  /\ builds # <<>>
  /\ ~ragRetriever.present
  /\ ragStatus.text = "No documents loaded."

\* C13: a rebuild that completes publishes the index and the status of the
\* documents it was started for, also when these are no longer the
\* documents of the list
C13_CompletionOrder ==
  [][\A i \in 1..Len(builds) :
       (BuildOk(i) /\ builds[i].docs # loadedDocuments)
       => /\ ragRetriever'.present
          /\ ragRetriever'.docs = builds[i].docs
          /\ ragRetriever'.docs # loadedDocuments'
          /\ ragStatus' = StatusReady(Len(builds[i].docs))]_vars

\* no rebuild is running (the one started for the documents of the list has
\* completed), and the index and the status are those of an older list
C13_Witness ==
  /\ builds = <<>>
  /\ reads = <<>>
  /\ loadedDocuments # <<>>
  /\ ragRetriever.present
  /\ ragRetriever.docs # loadedDocuments
  /\ Len(ragRetriever.docs) # Len(loadedDocuments)
  /\ ragStatus = StatusReady(Len(ragRetriever.docs))

\* the documents of the list, as a set
LoadedSet == {loadedDocuments[k] : k \in 1..Len(loadedDocuments)}

\* C14: when a send is accepted while an index is published, every document
\* the index was built from is in the list
C14_SendUsesCurrentIndex ==
  [][(/\ HandleSend(S_hi)
      /\ Len(sends') > Len(sends)
      /\ ragRetriever.present)
     => \A k \in 1..Len(ragRetriever.docs) :
          ragRetriever.docs[k] \in LoadedSet]_vars

\* C15: a rebuild that fails leaves the published index, or its absence, as
\* it was and sets the error status; the index changes only to the index of
\* all documents of a rebuild that completed, or to none
C15_FailureKeepsIndex ==
  [][/\ \A i \in 1..Len(builds) :
          BuildFail(i)
          => /\ ragRetriever' = ragRetriever
             /\ ragStatus'.text = "Error processing documents."
     /\ ragRetriever' # ragRetriever
          => \/ ~ragRetriever'.present
             \/ \E i \in 1..Len(builds) :
                  /\ builds' = Remove(builds, i)
                  /\ ragRetriever'.docs = builds[i].docs]_vars

C15_Witness ==
  /\ builds = <<>>
  /\ ragRetriever.present
  /\ ragStatus.text = "Error processing documents."

\* a session list as the program holds it: id, title and messages
PlainChats(cs) ==
  [k \in 1..Len(cs) |->
     [id |-> cs[k].id, title |-> cs[k].title, messages |-> cs[k].messages]]

\* the session the mount effect created is the only change of the list, it
\* has no message and it is active
FreshSessionActive ==
  /\ nextUid' = nextUid + 1
  /\ \E k \in 1..Len(chats') :
       /\ chats'[k].uid = nextUid
       /\ chats'[k].messages = <<>>
       /\ chats'[k].title = S_NewChat
       /\ activeChatId' = chats'[k].id
       /\ PlainChats(Remove(chats', k)) = Parse(stChats)

\* C16 as stated: a page load takes the stored list and the stored active
\* id when the id names a stored session; when nothing is stored or the id
\* names no stored session it creates a fresh session and activates it
C16_FallbackCreatesSession ==
  [][Reload
     => IF Parse(stChats) # <<>> /\ Found(Parse(stChats), stActive)
          THEN /\ PlainChats(chats') = Parse(stChats)
               /\ activeChatId' = stActive
          ELSE FreshSessionActive]_vars

\* C16 amended: when sessions are stored and the stored id names none of
\* them, the first stored session becomes active and no session is created
C16_FallbackFirstSession ==
  [][Reload
     => IF Parse(stChats) = <<>>
          THEN FreshSessionActive
          ELSE /\ PlainChats(chats') = Parse(stChats)
               /\ nextUid' = nextUid
               /\ activeChatId' =
                    IF Found(Parse(stChats), stActive)
                      THEN stActive
                      ELSE Parse(stChats)[1].id]_vars

\* the page was loaded with a stored id that named no stored session
C16_Witness ==
  /\ mounted = "first"
  /\ chats # <<>>
  /\ activeChatId = chats[1].id

\* C17 as stated: a page load leaves the session list, the messages of every
\* session in their order, and the active id as they were
C17_RoundTrip ==
  [][Reload
     => /\ PlainChats(chats') = PlainChats(chats)
        /\ activeChatId' = activeChatId]_vars

\* C17 amended: a page load leaves a non-empty session list and the messages
\* of every session as they were, and the active id as it was when it named
\* a session of the list; an empty list becomes one fresh session
C17_RoundTripNonEmpty ==
  [][Reload
     => /\ chats # <<>> => PlainChats(chats') = PlainChats(chats)
        /\ Found(chats, activeChatId) => activeChatId' = activeChatId
        /\ chats = <<>>
             => /\ Len(chats') = 1
                /\ chats'[1].messages = <<>>
                /\ activeChatId' = chats'[1].id]_vars

\* the page was loaded with two stored sessions, one of them with a reply
\* and the second one active
C17_Witness ==
  /\ mounted = "saved"
  /\ sends = <<>>
  /\ loadedDocuments = <<>>
  /\ Len(chats) = 2
  /\ activeChatId = chats[2].id
  /\ chats[1].id # chats[2].id
  /\ \E k \in 1..2 :
       /\ Len(chats[k].messages) = 2
       /\ chats[k].messages[1].role = "user"
       /\ chats[k].messages[2].role = "assistant"

\* C18: localStorage holds the session list and the active id of the state
C18_StorageMatches ==
  /\ Parse(stChats) = PlainChats(chats)
  /\ stActive = activeChatId

\* the command words in any letter case
C19_CommandWords ==
  {<<a, b, c, d>> : a \in {"s", "S"}, b \in {"e", "E"}, c \in {"n", "N"},
                    d \in {"d", "D", "t", "T"}}

\* u ends in a whitespace character followed by a command word
C19_EndsInCommand(u) ==
  /\ Len(u) >= 5
  /\ u[Len(u) - 4] \in {" ", "\t", "\n"}
  /\ SubSeq(u, Len(u) - 3, Len(u)) \in C19_CommandWords

\* C19: a final result that completes an utterance ending in a command word
\* with a non-blank remainder sets the voice command to the trimmed
\* remainder and moves the boundary to the end of the results, so that the
\* buffer of the next utterance is empty; the effect on the voice command
\* calls executeSend once with that text and clears the command
C19_VoiceCommand ==
  [][/\ \A r \in SpeechResults :
          LET u == CurrentUtterance(EventResults(r), utteranceStartIndexRef)
          IN (/\ RecognitionOnResult(r)
              /\ r.isFinal
              /\ C19_EndsInCommand(u)
              /\ Trim(SubSeq(u, 1, Len(u) - 5)) # <<>>)
             => /\ voiceCommandToSend' = Some(Trim(SubSeq(u, 1, Len(u) - 5)))
                /\ utteranceStartIndexRef' = Len(results')
                /\ CurrentUtterance(results', utteranceStartIndexRef') = <<>>
     /\ VoiceCommandEffect
          => /\ voiceCommandToSend' = None
             /\ Len(sends') <= Len(sends) + 1
             /\ (~isLoading /\ apiKey # "")
                  => /\ Len(sends') = Len(sends) + 1
                     /\ sends'[Len(sends')].text = voiceCommandToSend[1]
     /\ voiceCommandToSend' # None
          => \E r \in SpeechResults : RecognitionOnResult(r) /\ r.isFinal]_vars

\* "hi" and " Sent" were recognized as two results, and the send of "hi" is
\* under way
C19_Witness ==
  /\ Len(results) = 2
  /\ results[2].transcript = <<" ", "S", "e", "n", "t">>
  /\ utteranceStartIndexRef = 2
  /\ voiceCommandToSend = None
  /\ Len(sends) = 1
  /\ sends[1].text = S_hi

\* C20: with no API key, a send (typed or spoken) and an upload change
\* neither the sessions, nor the in-flight flag, nor the documents, the index
\* and its status, and start no request, no file read and no rebuild
C20_NoKeyAborts ==
  [][/\ \A t \in SendTexts :
          (apiKey = "" /\ HandleSend(t))
          => UNCHANGED <<sessionVars, isLoading, sends, ragVars>>
     /\ (apiKey = "" /\ VoiceCommandEffect)
          => UNCHANGED <<sessionVars, isLoading, sends, ragVars>>
     /\ \A files \in FileLists :
          (apiKey = "" /\ HandleFileUpload(files))
          => UNCHANGED <<sessionVars, isLoading, sends, ragVars>>]_vars

\* the alert was shown and no key was entered since
C20_Witness ==
  /\ alerted
  /\ apiKey = ""
  /\ ~isLoading
  /\ sends = <<>>
  /\ reads = <<>>
  /\ loadedDocuments = <<>>

\* the sessions of cs from the one created last to the one created first
NewestFirst(cs) ==
  \A j, k \in 1..Len(cs) : j < k => cs[j].uid > cs[k].uid

\* C21: handleNewChat puts a new session with no messages at the head of
\* the list, before the sessions that were there, and makes it active; and
\* after every step the list runs from the session created last to the
\* session created first
C21_NewestFirst ==
  [][/\ (nextUid' # nextUid /\ HandleNewChat)
          => /\ Len(chats') = Len(chats) + 1
             /\ chats'[1].uid = nextUid
             /\ chats'[1].messages = <<>>
             /\ SubSeq(chats', 2, Len(chats')) = chats
             /\ activeChatId' = chats'[1].id
     /\ NewestFirst(chats')]_vars

\* a session created by the user after a session that has an exchange: it
\* is first, empty and active
C21_Witness ==
  /\ Len(chats) = 2
  /\ chats[1].messages = <<>>
  /\ activeChatId = chats[1].id
  /\ chats[1].id # chats[2].id
  /\ Len(chats[2].messages) = 2
  /\ sends = <<>>

\* cs has the session created as number u
HasUid(cs, u) == \E k \in 1..Len(cs) : cs[k].uid = u

\* the session a suspended call was submitted to: the active session of the
\* render that created the call while it awaits the retrieval (0 if there
\* was none), the target it determined afterwards
SendTarget(send) ==
  IF send.pc = "retrieve"
    THEN IF Found(send.cChats, send.cActive)
           THEN Find(send.cChats, send.cActive).uid
           ELSE 0
    ELSE send.targetUid

\* a step of the suspended call i: one of its requests resolves or rejects
SendStep(i) ==
  /\ sends' # sends
  /\ \/ \E c \in Contexts : RetrieveOk(i, c)
     \/ RetrieveFail(i)
     \/ \E c \in TitleContents : TitleOk(i, c)
     \/ TitleFail(i)
     \/ \E c \in ReplyContents : MainOk(i, c)
     \/ MainFail(i)

\* C22: once the session a send was submitted to is no longer in the list,
\* no step of that send changes the list: the reply or the fallback is
\* dropped, no other session changes and the deleted session stays deleted
C22_DeletedTargetDropsReply ==
  [][\A i \in 1..Len(sends) :
       (/\ SendTarget(sends[i]) # 0
        /\ ~HasUid(chats, SendTarget(sends[i]))
        /\ SendStep(i))
       => chats' = chats]_vars

\* every session of the list other than the one created as number u is
\* still in the list after the step, with its id, title and messages
OthersKept(u) ==
  \A k \in 1..Len(chats) :
    chats[k].uid # u => \E j \in 1..Len(chats') : chats'[j] = chats[k]

\* the session a send submitted now goes to: the active session (0 if the
\* active id names none)
ActiveUid ==
  IF Found(chats, activeChatId) THEN Find(chats, activeChatId).uid ELSE 0

\* C23: every step of an accepted send, from its submission to its reply or
\* fallback, keeps every session of the list other than the target of the
\* send in the list with its title and messages, a session created while
\* the send was in flight included
C23_OtherSessionsKept ==
  [][/\ \A i \in 1..Len(sends) :
          SendStep(i) => OthersKept(SendTarget(sends[i]))
     /\ \A t \in SendTexts :
          (sends' # sends /\ HandleSend(t)) => OthersKept(ActiveUid)
     /\ (sends' # sends /\ VoiceCommandEffect) => OthersKept(ActiveUid)]_vars

\* a reply step of the suspended call i: its title, its reply or its
\* fallback is applied
ReplyStep(i) ==
  /\ sends' # sends
  /\ \/ \E c \in TitleContents : TitleOk(i, c)
     \/ TitleFail(i)
     \/ \E c \in ReplyContents : MainOk(i, c)
     \/ MainFail(i)

\* the active session is not the session created as number u and the step
\* leaves it as it is
ActiveUntouched(u) ==
  (Found(chats, activeChatId) /\ ActiveUid # u)
  => /\ Found(chats', activeChatId)
     /\ Find(chats', activeChatId) = Find(chats, activeChatId)

\* C24: when the title, the reply or the fallback of a send is applied, a
\* session other than the target of the send that is active by then
\* receives nothing: it keeps its title and its messages
C24_ActiveSessionUntouched ==
  [][\A i \in 1..Len(sends) :
       ReplyStep(i) => ActiveUntouched(sends[i].targetUid)]_vars

\* the reply or the fallback of the suspended call i is forwarded to speak
Forwarded(i) ==
  /\ sends' # sends
  /\ \/ \E c \in ReplyContents : c # <<>> /\ MainOk(i, c)
     \/ TitleFail(i)
     \/ MainFail(i)

\* C25: a reply or a fallback forwarded to speak while mute is on starts no
\* utterance, also when mute was switched on after the send was submitted
C25_MuteSuppressesSpeech ==
  [][\A i \in 1..Len(sends) :
       (isMuted /\ Forwarded(i)) => speechSynthesis' = speechSynthesis]_vars

\* the step changes the title of the session created as number u
Renamed(u) ==
  \E k \in 1..Len(chats), j \in 1..Len(chats') :
    /\ chats[k].uid = u
    /\ chats'[j].uid = u
    /\ chats'[j].title # chats[k].title

\* the suspended call i, whose user message is the first message of its
\* target, receives its title
FirstSendTitled(i) ==
  /\ sends[i].pc = "title"
  /\ Len(sends[i].messages) = 1
  /\ sends[i].titleReqs = 1
  /\ \E c \in TitleContents : TitleOk(i, c)

\* C26: the title of a session changes only when the title request of the
\* send whose user message is its first message resolves, and only from the
\* initial title, hence once; and a send whose user message is not the
\* first message of its target issues no title request
C26_RenamedOnceByFirstSend ==
  [][/\ \A k \in 1..Len(chats) :
          (chats' # chats /\ Renamed(chats[k].uid))
          => /\ chats[k].title = S_NewChat
             /\ \E i \in 1..Len(sends) :
                  sends[i].targetUid = chats[k].uid /\ FirstSendTitled(i)
     /\ \A i \in 1..Len(sends') :
          (sends'[i].pc # "retrieve" /\ Len(sends'[i].messages) > 1)
          => sends'[i].pc = "main" /\ sends'[i].titleReqs = 0]_vars

\* the title request of a suspended call is outstanding
TitleOutstanding(send) == send.pc = "title"

\* the main request of a suspended call is outstanding
MainOutstanding(send) == send.pc = "main"

TitleApplied(u, title) ==
  \A k \in 1..Len(chats) :
    chats[k].uid = u
    => /\ k <= Len(chats')
       /\ chats'[k].uid = u
       /\ chats'[k].title = title
       /\ chats'[k].messages = chats[k].messages

\* the session created as number u keeps its title and gets the message
ReplyApplied(u, m) ==
  \A k \in 1..Len(chats) :
    chats[k].uid = u
    => /\ k <= Len(chats')
       /\ chats'[k].uid = u
       /\ chats'[k].title = chats[k].title
       /\ chats'[k].messages = Append(chats[k].messages, m)

PromptOf(p, system, ms, text) ==
  /\ p = <<system>> \o ms
  /\ p[1].role = "system"
  /\ \A k \in 2..Len(p) : p[k].role # "system"
  /\ p[Len(p)] = Message("user", text)

\* C28: while the main request of a send is outstanding, its prompt is one
\* system message followed by the messages the target session has in the
\* list, the last of which is the user message of the send; the system
\* message is the context instruction when the retrieval resolved with a
\* context and the persona instruction otherwise, and a send submitted with
\* no retriever issues no retrieval query
C28_Prompt ==
  [][/\ \A i \in 1..Len(sends') :
          MainOutstanding(sends'[i])
          => /\ \A k \in 1..Len(chats') :
                  chats'[k].uid = sends'[i].targetUid
                  => PromptOf(MessagesForApi(sends'[i]),
                              IF sends'[i].context # <<>>
                                THEN ContextPrompt(sends'[i].context)
                                ELSE SystemPrompt,
                              chats'[k].messages, sends'[i].text)
     /\ \A i \in 1..Len(sends), c \in Contexts :
          (sends' # sends /\ RetrieveOk(i, c) /\ Len(sends') = Len(sends))
          => sends'[Len(sends')].context = c
     /\ (~ragRetriever.present /\ Len(sends') > Len(sends))
          => /\ sends'[Len(sends')].pc # "retrieve"
             /\ sends'[Len(sends')].context = <<>>]_vars

\* the main request of a second exchange is outstanding with a context
C28_Witness ==
  /\ Len(sends) = 1
  /\ MainOutstanding(sends[1])
  /\ sends[1].context = <<"text">>
  /\ Len(sends[1].messages) = 3
  /\ MessagesForApi(sends[1])[1] = ContextPrompt(<<"text">>)
  /\ MessagesForApi(sends[1])[3].role = "assistant"

\* the sequence a is the beginning of the sequence b
IsPrefix(a, b) ==
  Len(a) <= Len(b) /\ SubSeq(b, 1, Len(a)) = a

\* C29: every step leaves the messages of every session that stays in the
\* list in place and at most appends to them: the messages before the step
\* are the beginning of the messages after it
C29_AppendOnly ==
  [][\A k \in 1..Len(chats), j \in 1..Len(chats') :
       chats'[j].uid = chats[k].uid
       => IsPrefix(chats[k].messages, chats'[j].messages)]_vars

\* a request of the suspended call i rejects
SendFailure(i) ==
  /\ sends' # sends
  /\ \/ RetrieveFail(i)
     \/ TitleFail(i)
     \/ MainFail(i)

\* C30: a rejected retrieval, title or completion request of a send ends in
\* the fallback message on the session the send was submitted to, if it is
\* still in the list, and a failed index build ends in the error status
C30_FailuresHandled ==
  [][/\ \A i \in 1..Len(sends) :
          (HasUid(chats, SendTarget(sends[i])) /\ SendFailure(i))
          => \E k \in 1..Len(chats') :
               /\ chats'[k].uid = SendTarget(sends[i])
               /\ chats'[k].messages # <<>>
               /\ chats'[k].messages[Len(chats'[k].messages)]
                    = Message("assistant", ErrorMessageContent)
     /\ \A i \in 1..Len(builds) :
          (builds' # builds /\ BuildFail(i)) => ragStatus' = StatusError]_vars

\* some audio player is playing
SomePlaying(ps) == \E p \in 1..Len(ps) : ps[p].state = "playing"

\* the box shows step number k of the script
Shows(box, k) == box.visible /\ box.text = WalkthroughData[k].text

\* C31: a walkthrough that is started shows step one; when the audio of the
\* step on show ends, the next step of the script is shown, and after the
\* last one the walkthrough is inactive with the box hidden; the control
\* pressed while the walkthrough is active leaves it inactive with the box
\* hidden and no audio playing, so that no further step is shown
C31_WalkthroughInOrder ==
  [][/\ (~isWalkthroughActive /\ StartWalkthrough)
          => isWalkthroughActive' /\ Shows(speechBox', 1)
     /\ \A p \in 1..Len(players) :
          (players' # players /\ AudioEnded(p))
          => LET k == players[p].currentIndex + 1
             IN /\ isWalkthroughActive
                /\ Shows(speechBox, k)
                /\ IF k < Len(WalkthroughData)
                     THEN isWalkthroughActive' /\ Shows(speechBox', k + 1)
                     ELSE ~isWalkthroughActive' /\ ~speechBox'.visible
     /\ (isWalkthroughActive /\ StartWalkthrough)
          => /\ ~isWalkthroughActive'
             /\ ~speechBox'.visible
             /\ ~SomePlaying(players')]_vars

====
